---- MODULE Spec2Model ----
(***************************************************************************)
(* Legal Evidence Hub: the evidence-processing pipeline.                   *)
(*                                                                         *)
(* Backend (presigned-URL issuer, evidence query API, draft composer,      *)
(* case closure), blob storage with its upload trigger, and the AI worker  *)
(* (key parsing, file-type router, result writer, vector upsert).          *)
(* The Python sources of the backend and of the worker are not part of    *)
(* the checked-in tree: those operations follow the design documents      *)
(* (docs/specs/BACKEND_DESIGN.md, the worker report) and spec.md.          *)
(* The frontend table (useEvidenceTable) follows its TypeScript source.    *)
(***************************************************************************)
EXTENDS Integers, Sequences, FiniteSets, TLC

(***************************************************************************)
(* Bounds of the model.                                                    *)
(***************************************************************************)
\* Events of the environment taken together: upload requests, legacy uploads
\* and the invocations the upload trigger starts (deliveries and redeliveries).
MaxEvents == 4

(***************************************************************************)
(* Users, cases, membership.                                               *)
(***************************************************************************)
Users == {"u1", "u2", "u3"}
\* "c1" is a case of the case table, "c0" is an id no case has.
ExistingCases == {"c1"}
Cases == ExistingCases \cup {"c0"}
\* case_members: u1 owns c1, u3 is a viewer of c1, u2 is a member of no case.
CaseRole(c, u) ==
    CASE c = "c1" /\ u = "u1" -> "owner"
      [] c = "c1" /\ u = "u3" -> "viewer"
      [] OTHER -> "none"

\* The users the membership check lets through to a case's evidence.
IsCaseMember(c, u) == CaseRole(c, u) \in {"owner", "member", "viewer"}

\* Issuing an upload credential needs role >= member.
CanUpload(c, u) == CaseRole(c, u) \in {"owner", "member"}

\* An absent optional field, and a present one.
Null == <<>>
Some(v) == <<v>>

\* No evidence id (legacy key, nothing extracted).
NoId == <<>>

(***************************************************************************)
(* Evidence status.                                                        *)
(***************************************************************************)
EvidenceStatus == {"uploading", "queued", "processing", "review_needed", "completed", "failed"}

\* The edges of the status machine of spec.md, section 3.
StatusEdges ==
    { <<"uploading", "queued">>, <<"queued", "processing">>,
      <<"processing", "completed">>, <<"processing", "failed">>,
      <<"processing", "review_needed">>, <<"failed", "queued">> }

(***************************************************************************)
(* File names and object keys.  A name is a sequence of tokens; a key is   *)
(* the sequence of its path segments, the last one a sequence of tokens.   *)
(***************************************************************************)
\* File names a client may give: one holds a path separator, the other an
\* underscore and an extension no parser handles.
FileNames == { <<"..", "/", "clip", ".mp4">>, <<"memo", "_", "v2", ".xyz">> }

\* File names of objects put under a case's raw prefix without the backend.
LegacyFileNames == { <<"chat", ".txt">> }

\* The decimal form of a generated number.
IdStr(n) == <<"1", "2", "3", "4", "5", "6", "7", "8", "9">>[n]

\* The evidence id generated from a number: the fixed tag, then the number.
MakeEvidenceId(n) == <<"ev_", IdStr(n)>>

\* Path separators and parent references are dropped from a file name.
SanitizeFilename(fn) == SelectSeq(fn, LAMBDA t : t \notin {"/", ".."})

\* A key built from the file name as the client gave it.
CanonicalKeyUnsanitized(c, eid, fn) == <<"cases", c, "raw", eid \o <<"_">> \o fn>>

\* cases/{case_id}/raw/{evidence_id}_{filename}
CanonicalKey(c, eid, fn) == <<"cases", c, "raw", eid \o <<"_">> \o SanitizeFilename(fn)>>

\* cases/{case_id}/raw/{filename}
LegacyKey(c, fn) == <<"cases", c, "raw", fn>>

\* _extract_case_id: the segment after "cases".
ExtractCaseId(key) ==
    IF Len(key) = 4 /\ key[1] = "cases" /\ key[3] = "raw" THEN key[2] ELSE "none"

\* _extract_evidence_id_from_s3_key: the tagged id before the first underscore
\* of the last segment, NoId when the segment does not start with the tag.
ExtractEvidenceId(key) ==
    LET seg == key[Len(key)]
    IN  IF Len(seg) >= 4 /\ seg[1] = "ev_" /\ seg[3] = "_"
        THEN SubSeq(seg, 1, 2)
        ELSE NoId

\* The extension of a key: the last token of its last segment.
Extension(key) == LET seg == key[Len(key)] IN seg[Len(seg)]

\* The fixed extension table of the file-type router.
Route(key) ==
    CASE Extension(key) = ".txt" -> "text"
      [] Extension(key) = ".jpg" -> "image"
      [] Extension(key) = ".mp3" -> "audio"
      [] Extension(key) = ".mp4" -> "video"
      [] Extension(key) = ".pdf" -> "pdf"
      [] OTHER -> "unsupported-type"

VARIABLES
    caseStatus,   \* case table: status of every existing case
    records,      \* evidence record store: (case_id, evidence_id) -> record
    index,        \* per-case vector index: set of <<case_id, vector_id>>
    objects,      \* blob storage: object key -> time of its last upload
    pending,      \* upload events the trigger has still to deliver
    delivered,    \* object keys the trigger has delivered at least once
    inv,          \* the running worker invocations, by slot
    nInv,         \* number of invocations started so far
    nextId,       \* next number of the id generator
    nUploads,     \* upload requests and legacy uploads made so far
    retried,      \* history: the records an operator re-queued
    timedOut      \* history: the object keys an invocation timed out on

vars == <<caseStatus, records, index, objects, pending, delivered, inv, nInv,
          nextId, nUploads, retried, timedOut>>

\* The state of DraftGenerationModal and of the page that renders it.
VARIABLES
    isOpen,        \* prop: the modal is shown
    evidenceList,  \* prop: the evidence of the case, as the page hands it over
    selectedIds,   \* useState: the ids selected, in the order of selection
    generated      \* the calls of onGenerate so far: the last argument, if any

modalVars == <<isOpen, evidenceList, selectedIds, generated>>

\* The state of AdminRolesPage.
VARIABLES
    roles,         \* useState: the rows of the permission matrix
    isLoading,     \* useState
    error,         \* useState: the load error, if any
    saveMessage,   \* useState: the message under the table, <<>> when none
    isSaving,      \* useState
    fetchCall,     \* the getRoles call in flight, if any
    toggleCall,    \* the handleToggle call waiting for updateRolePermissions, if any
    timers,        \* the pending setTimeout callbacks: seconds left, oldest first
    nToggles,      \* number of toggles made so far
    lastMessage,   \* history: the message the last finished toggle set
    msgAge         \* history: seconds since that toggle finished, up to TimerDelay

rolesVars == <<roles, isLoading, error, saveMessage, isSaving, fetchCall, toggleCall,
               timers, nToggles, lastMessage, msgAge>>

\* The state of LoginForm, of the browser's storage and of the router.
VARIABLES
    email,         \* useState
    password,      \* useState
    loginError,    \* useState error: the message under the form, "" when none
    loading,       \* useState
    loginCall,     \* the login call in flight, if any: its arguments
    localStorage,  \* the browser's localStorage
    route,         \* the path the router shows
    nSubmits       \* number of submissions so far

loginVars == <<email, password, loginError, loading, loginCall, localStorage, route, nSubmits>>

\* The state of the case pages: the link followed and what the page makes of it.
VARIABLES
    href,          \* the link followed last, <<>> when none
    pathname,      \* usePathname(): the path of the current URL
    fallbackId,    \* the id the page hands to useCaseIdFromUrl
    linked,        \* history: what the link was built from, if any
    effectiveId    \* the case id useCaseIdFromUrl returns on the page

pathVars == <<href, pathname, fallbackId, linked, effectiveId>>

\* The state of ClientEvidencePortalPage.
VARIABLES
    status,           \* 'idle' | 'uploading' | 'success' | 'error'
    uploadedCount,
    uploadedFiles,    \* the names of the files selected last
    uploadTimerRef,   \* uploadTimerRef.current: Null or the id of a timer
    pendingTimers,    \* the ids of the timers set and neither fired nor cleared
    portalMounted,    \* the component is mounted
    nSelections,      \* handleFilesSelected calls so far
    firedUnmounted    \* history: a timer has fired after the unmount

uploadVars ==
    <<status, uploadedCount, uploadedFiles, uploadTimerRef, pendingTimers,
      portalMounted, nSelections, firedUnmounted>>

\* The state of useAuth and of CasesPage, which uses it.
VARIABLES
    isAuthenticated,
    isAuthLoading,    \* isLoading of useAuth, isAuthLoading in CasesPage
    user,             \* Null or the user
    userCache,        \* localStorage 'userCache': Null or a string
    appVersion,       \* localStorage 'appVersion': Null or a version
    authPhase,        \* "mounted" until the effect has started initAuth, then "ready"
    authCalls,        \* the getCurrentUser and logoutApi calls in flight
    nAuthOps,         \* refreshAuth, verifyAuth and logout calls so far
    clearedSince,     \* history: logout has cleared the state and no verifyAuth
                      \* started after it has succeeded yet
    serverAccepted,   \* history: getCurrentUser has answered with a user
    cases,            \* CasesPage: the cases shown
    casesLoading,     \* CasesPage: isLoading
    casesError,       \* CasesPage: error
    casesRoute,       \* the route the router is at
    getCasesCalls,    \* the getCases calls in flight
    getCasesLog       \* history: the auth state each getCases call was made in

authVars ==
    <<isAuthenticated, isAuthLoading, user, userCache, appVersion, authPhase,
      authCalls, nAuthOps, clearedSince, serverAccepted>>

casesVars == <<cases, casesLoading, casesError, casesRoute, getCasesCalls, getCasesLog>>

\* The state of the frontend components.
frontendVars == <<modalVars, rolesVars, loginVars, pathVars, uploadVars, authVars, casesVars>>

\* What the modal leaves alone.
otherThanModal == <<vars, rolesVars, loginVars, pathVars, uploadVars, authVars, casesVars>>

\* What AdminRolesPage leaves alone.
otherThanRoles == <<vars, modalVars, loginVars, pathVars, uploadVars, authVars, casesVars>>

\* What LoginForm leaves alone.
otherThanLogin == <<vars, modalVars, rolesVars, pathVars, uploadVars, authVars, casesVars>>

\* What the case pages leave alone.
otherThanPaths == <<vars, modalVars, rolesVars, loginVars, uploadVars, authVars, casesVars>>

\* What ClientEvidencePortalPage leaves alone.
otherThanUpload == <<vars, modalVars, rolesVars, loginVars, pathVars, authVars, casesVars>>

\* What useAuth and CasesPage leave alone.
otherThanAuth == <<vars, modalVars, rolesVars, loginVars, pathVars, uploadVars>>

\* No handleToggle call is in flight.
NoCall == <<>>

\* DraftGenerationModal not shown.
ModalIdle ==
    /\ isOpen = FALSE
    /\ evidenceList = <<>>
    /\ selectedIds = <<>>
    /\ generated = <<>>

\* AdminRolesPage not mounted.
RolesIdle ==
    /\ roles = <<>>
    /\ isLoading = FALSE
    /\ error = Null
    /\ saveMessage = <<>>
    /\ isSaving = FALSE
    /\ fetchCall = "none"
    /\ toggleCall = NoCall
    /\ timers = <<>>
    /\ nToggles = 0
    /\ lastMessage = <<>>
    /\ msgAge = 0

\* The login page with its form as mounted: nothing typed, nothing stored.
LoginIdle ==
    /\ email = ""
    /\ password = ""
    /\ loginError = ""
    /\ loading = FALSE
    /\ loginCall = <<>>
    /\ localStorage = <<>>
    /\ route = "/login"
    /\ nSubmits = 0

\* No case page opened yet: the landing page.
PathsIdle ==
    /\ href = <<>>
    /\ pathname = <<"/">>
    /\ fallbackId = <<>>
    /\ linked = <<>>
    /\ effectiveId = <<>>

\* ClientEvidencePortalPage as mounted: the initial values of its useState
\* and useRef calls.
UploadIdle ==
    /\ status = "idle"
    /\ uploadedCount = 0
    /\ uploadedFiles = <<>>
    /\ uploadTimerRef = <<>>
    /\ pendingTimers = {}
    /\ portalMounted = TRUE
    /\ nSelections = 0
    /\ firedUnmounted = FALSE

\* useAuth and CasesPage as mounted, the effects not yet run: the initial
\* values of their useState calls.
AuthMounted ==
    /\ isAuthenticated = FALSE
    /\ isAuthLoading = TRUE
    /\ user = <<>>
    /\ authPhase = "mounted"
    /\ authCalls = <<>>
    /\ nAuthOps = 0
    /\ clearedSince = FALSE
    /\ serverAccepted = FALSE
    /\ cases = <<>>
    /\ casesLoading = TRUE
    /\ casesError = <<>>
    /\ casesRoute = "/cases"
    /\ getCasesCalls = 0
    /\ getCasesLog = <<>>

\* CasesPage mounted in a browser with an empty localStorage.
AuthIdle ==
    /\ AuthMounted
    /\ userCache = <<>>
    /\ appVersion = <<>>

\* The frontend with no component in use.
FrontendIdle == ModalIdle /\ RolesIdle /\ LoginIdle /\ PathsIdle /\ UploadIdle /\ AuthIdle

\* A slot no invocation runs in.
IdleInv == [key |-> <<>>, pc |-> "idle", origin |-> "none", eid |-> NoId]

\* The pipeline with nothing uploaded.
PipelineIdle ==
    /\ caseStatus = [c \in ExistingCases |-> "active"]
    /\ records = <<>>
    /\ index = {}
    /\ objects = <<>>
    /\ pending = {}
    /\ delivered = {}
    /\ inv = [i \in 1..MaxEvents |-> IdleInv]
    /\ nInv = 0
    /\ nextId = 1
    /\ nUploads = 0
    /\ retried = {}
    /\ timedOut = {}

Init == PipelineIdle /\ FrontendIdle

(***************************************************************************)
(* Evidence record store.                                                  *)
(***************************************************************************)
\* The placeholder the presigned-URL issuer creates.
Placeholder(key, now) ==
    [ status |-> "queued", timestamp |-> now, s3_key |-> key,
      summary |-> Null, labels |-> Null, content |-> Null, vector_id |-> Null,
      reason |-> Null, processed_at |-> Null, deleted |-> FALSE ]

\* The id of the vector document of an evidence item: case id and evidence id.
VectorId(c, eid) == <<c>> \o eid

\* What the analysis adapters return for an object: the success payload.
SuccessPayload(c, eid, key) ==
    [ summary |-> Some(<<"summary", Route(key)>>),
      labels |-> Some({Route(key)}),
      content |-> Some(key[Len(key)]),
      vector_id |-> Some(VectorId(c, eid)) ]

\* The record store after the worker marked an evidence item as being processed:
\* only a record that exists is touched.
MarkProcessing(recs, c, eid) ==
    IF <<c, eid>> \in DOMAIN recs
    THEN [recs EXCEPT ![<<c, eid>>].status = "processing"]
    ELSE recs

\* A success write that appends the content to what the record holds.
WriteSuccessAppends(recs, c, eid, key, payload, uploaded, now) ==
    IF <<c, eid>> \in DOMAIN recs
    THEN [recs EXCEPT ![<<c, eid>>] =
            [@ EXCEPT !.status = "completed", !.processed_at = Some(now),
                      !.summary = payload.summary, !.labels = payload.labels,
                      !.content = IF @ = Null THEN payload.content
                                  ELSE Some(@[1] \o payload.content[1]),
                      !.vector_id = payload.vector_id, !.reason = Null]]
    ELSE ( <<c, eid>> :>
            [ status |-> "completed", timestamp |-> uploaded, s3_key |-> key,
              summary |-> payload.summary, labels |-> payload.labels,
              content |-> payload.content, vector_id |-> payload.vector_id,
              reason |-> Null, processed_at |-> Some(now), deleted |-> FALSE ] ) @@ recs

\* A success write that leaves the failure reason of an existing record.
WriteSuccessKeepsReason(recs, c, eid, key, payload, uploaded, now) ==
    IF <<c, eid>> \in DOMAIN recs
    THEN [recs EXCEPT ![<<c, eid>>] =
            [@ EXCEPT !.status = "completed", !.processed_at = Some(now),
                      !.summary = payload.summary, !.labels = payload.labels,
                      !.content = payload.content, !.vector_id = payload.vector_id]]
    ELSE ( <<c, eid>> :>
            [ status |-> "completed", timestamp |-> uploaded, s3_key |-> key,
              summary |-> payload.summary, labels |-> payload.labels,
              content |-> payload.content, vector_id |-> payload.vector_id,
              reason |-> Null, processed_at |-> Some(now), deleted |-> FALSE ] ) @@ recs

\* update_evidence_status with a success payload: creates the record when it
\* does not exist, else sets status, processed_at and the analysis fields in place.
\* uploaded: the upload time of the object; now: the logical time of the write,
\* the number of the invocation that writes.
WriteSuccess(recs, c, eid, key, payload, uploaded, now) ==
    IF <<c, eid>> \in DOMAIN recs
    THEN [recs EXCEPT ![<<c, eid>>] =
            [@ EXCEPT !.status = "completed", !.processed_at = Some(now),
                      !.summary = payload.summary, !.labels = payload.labels,
                      !.content = payload.content, !.vector_id = payload.vector_id,
                      !.reason = Null]]
    ELSE ( <<c, eid>> :>
            [ status |-> "completed", timestamp |-> uploaded, s3_key |-> key,
              summary |-> payload.summary, labels |-> payload.labels,
              content |-> payload.content, vector_id |-> payload.vector_id,
              reason |-> Null, processed_at |-> Some(now), deleted |-> FALSE ] ) @@ recs

\* update_evidence_status with a failure reason.
WriteFailure(recs, c, eid, key, why, uploaded, now) ==
    IF <<c, eid>> \in DOMAIN recs
    THEN [recs EXCEPT ![<<c, eid>>] =
            [@ EXCEPT !.status = "failed", !.processed_at = Some(now),
                      !.reason = Some(why)]]
    ELSE ( <<c, eid>> :>
            [ status |-> "failed", timestamp |-> uploaded, s3_key |-> key,
              summary |-> Null, labels |-> Null, content |-> Null, vector_id |-> Null,
              reason |-> Some(why), processed_at |-> Some(now), deleted |-> FALSE ] ) @@ recs

\* Upsert of the vector document into the index of the case.
UpsertVector(idx, c, eid) == idx \cup { <<c, VectorId(c, eid)>> }

\* The records of a case the backend shows (soft-deleted ones are hidden).
CaseRecordKeys(recs, c) == { k \in DOMAIN recs : k[1] = c /\ ~recs[k].deleted }

(***************************************************************************)
(* Backend requests.                                                       *)
(***************************************************************************)
\* An issuer that does not look at the status of the case.
RequestUploadResponseIgnoresClosed(u, c, fn) ==
    IF ~CanUpload(c, u) THEN [status |-> "forbidden", file_key |-> <<>>]
    ELSE [status |-> "ok", file_key |-> CanonicalKey(c, MakeEvidenceId(nextId), fn)]

\* GET /evidence/presigned-url?case_id=&filename= : what the issuer answers
\* in the current state: a permission error, a conflict, or the minted key.
RequestUploadResponse(u, c, fn) ==
    IF ~CanUpload(c, u) THEN [status |-> "forbidden", file_key |-> <<>>]
    ELSE IF caseStatus[c] = "closed" THEN [status |-> "conflict", file_key |-> <<>>]
    ELSE [status |-> "ok", file_key |-> CanonicalKey(c, MakeEvidenceId(nextId), fn)]

\* The issuer's side effect: on success the placeholder record is created
\* under the generated evidence id; an error changes nothing.
RequestUpload(u, c, fn) ==
    /\ nUploads + nInv < MaxEvents
    /\ IF RequestUploadResponse(u, c, fn).status = "ok"
       THEN /\ records' = (<<c, MakeEvidenceId(nextId)>> :>
                             Placeholder(RequestUploadResponse(u, c, fn).file_key, nUploads + 1))
                          @@ records
            /\ nextId' = nextId + 1
            /\ nUploads' = nUploads + 1
       ELSE UNCHANGED <<records, nextId, nUploads>>
    /\ UNCHANGED <<caseStatus, index, objects, pending, delivered, inv, nInv, retried, timedOut>>
    /\ UNCHANGED frontendVars

\* The keys an upload credential was issued for.
IssuedKeys == { records[k].s3_key : k \in { x \in DOMAIN records : ExtractEvidenceId(records[x].s3_key) = x[2] } }

(***************************************************************************)
(* Blob storage and its upload trigger.                                    *)
(***************************************************************************)
\* The client PUTs the file to the key of its upload credential (scoped to a
\* single PUT); the object creation raises an upload event.
Upload(key) ==
    /\ key \in IssuedKeys
    /\ key \notin DOMAIN objects
    /\ objects' = (key :> nUploads) @@ objects
    /\ pending' = pending \cup { [key |-> key, origin |-> "upload"] }
    /\ UNCHANGED <<caseStatus, records, index, delivered, inv, nInv, nextId, nUploads, retried, timedOut>>
    /\ UNCHANGED frontendVars

\* An object lands under a case's raw prefix with a legacy key (no evidence id).
UploadLegacy(c, fn) ==
    /\ nUploads + nInv < MaxEvents
    /\ LegacyKey(c, fn) \notin DOMAIN objects
    /\ nUploads' = nUploads + 1
    /\ objects' = (LegacyKey(c, fn) :> nUploads + 1) @@ objects
    /\ pending' = pending \cup { [key |-> LegacyKey(c, fn), origin |-> "upload"] }
    /\ UNCHANGED <<caseStatus, records, index, delivered, inv, nInv, nextId, retried, timedOut>>
    /\ UNCHANGED frontendVars

\* The slot a new invocation runs in: the first free one.
FreeSlot == CHOOSE i \in 1..MaxEvents :
                /\ inv[i].pc = "idle"
                /\ \A j \in 1..(i - 1) : inv[j].pc # "idle"

\* The worker's handler starts on an object key: it extracts case id and
\* evidence id from the key and marks the evidence record as processing.
StartInvocation(key, origin) ==
    /\ nUploads + nInv < MaxEvents
    /\ nInv' = nInv + 1
    /\ inv' = [inv EXCEPT ![FreeSlot] =
                 [key |-> key, pc |-> "processing", origin |-> origin,
                  eid |-> ExtractEvidenceId(key)]]
    /\ records' = MarkProcessing(records, ExtractCaseId(key), ExtractEvidenceId(key))

\* The trigger delivers a pending upload event to the worker.
Deliver(ev) ==
    /\ ev \in pending
    /\ StartInvocation(ev.key, ev.origin)
    /\ pending' = pending \ {ev}
    /\ delivered' = delivered \cup {ev.key}
    /\ UNCHANGED <<caseStatus, index, objects, nextId, nUploads, retried, timedOut>>
    /\ UNCHANGED frontendVars

\* At-least-once delivery: the trigger delivers an event again.
Redeliver(key) ==
    /\ key \in delivered
    /\ StartInvocation(key, "redelivery")
    /\ UNCHANGED <<caseStatus, index, objects, pending, delivered, nextId, nUploads, retried, timedOut>>
    /\ UNCHANGED frontendVars

(***************************************************************************)
(* The worker: one invocation per delivered key.                           *)
(***************************************************************************)
\* The evidence id an invocation commits under: the one of the key, or, for a
\* legacy key, a newly generated one (fallback: a new record).
CommitEvidenceId(i) ==
    IF inv[i].eid # NoId THEN inv[i].eid ELSE MakeEvidenceId(nextId)

\* Result writer, success: the analysis returned; the record is updated (or
\* created) with status completed and the analysis fields.
WorkerCommitSuccess(i) ==
    /\ inv[i].pc = "processing"
    /\ Route(inv[i].key) # "unsupported-type"
    /\ LET key == inv[i].key
           c == ExtractCaseId(key)
           eid == CommitEvidenceId(i)
       IN  /\ records' = WriteSuccess(records, c, eid, key, SuccessPayload(c, eid, key),
                                      objects[key], nInv)
           /\ inv' = [inv EXCEPT ![i].pc = "recorded", ![i].eid = eid]
    /\ nextId' = IF inv[i].eid = NoId THEN nextId + 1 ELSE nextId
    /\ UNCHANGED <<caseStatus, index, objects, pending, delivered, nInv, nUploads, retried, timedOut>>
    /\ UNCHANGED frontendVars

\* Result writer, second step of a success: the vector document is upserted
\* into the index of the case; the invocation ends.
WorkerUpsertVector(i) ==
    /\ inv[i].pc = "recorded"
    /\ index' = UpsertVector(index, ExtractCaseId(inv[i].key), inv[i].eid)
    /\ inv' = [inv EXCEPT ![i] = IdleInv]
    /\ UNCHANGED <<caseStatus, records, objects, pending, delivered, nInv, nextId, nUploads, retried, timedOut>>
    /\ UNCHANGED frontendVars

\* The reason of a failure caught in an invocation: the router's
\* unsupported-type error, or the error of an analysis adapter.
FailureReason(key) ==
    IF Route(key) = "unsupported-type" THEN "unsupported-type" ELSE "adapter-error"

\* Result writer, failure: a routing or adapter error was caught; the record is
\* updated (or created) with status failed and the reason; the invocation ends.
WorkerCommitFailure(i) ==
    /\ inv[i].pc = "processing"
    /\ LET key == inv[i].key
           c == ExtractCaseId(key)
           eid == CommitEvidenceId(i)
       IN  records' = WriteFailure(records, c, eid, key, FailureReason(key),
                                   objects[key], nInv)
    /\ inv' = [inv EXCEPT ![i] = IdleInv]
    /\ nextId' = IF inv[i].eid = NoId THEN nextId + 1 ELSE nextId
    /\ UNCHANGED <<caseStatus, index, objects, pending, delivered, nInv, nUploads, retried, timedOut>>
    /\ UNCHANGED frontendVars

\* A timeout whose invocation marks its record as failed before it ends.
WorkerTimeoutMarksFailed(i) ==
    /\ inv[i].pc \in {"processing", "recorded"}
    /\ inv' = [inv EXCEPT ![i] = IdleInv]
    /\ timedOut' = timedOut \cup {inv[i].key}
    /\ records' = IF <<ExtractCaseId(inv[i].key), inv[i].eid>> \in DOMAIN records
                  THEN [records EXCEPT ![<<ExtractCaseId(inv[i].key), inv[i].eid>>] =
                          [@ EXCEPT !.status = "failed", !.reason = Some("timeout")]]
                  ELSE records
    /\ UNCHANGED <<caseStatus, index, objects, pending, delivered, nInv, nextId,
                   nUploads, retried>>
    /\ UNCHANGED frontendVars

\* The hosting platform ends an invocation that exceeds the function timeout
\* (or that crashed): nothing is written.
WorkerTimeout(i) ==
    /\ inv[i].pc \in {"processing", "recorded"}
    /\ inv' = [inv EXCEPT ![i] = IdleInv]
    /\ timedOut' = timedOut \cup {inv[i].key}
    /\ UNCHANGED <<caseStatus, records, index, objects, pending, delivered, nInv, nextId,
                   nUploads, retried>>
    /\ UNCHANGED frontendVars

(***************************************************************************)
(* Operator and case owner.                                                *)
(***************************************************************************)
\* An operator re-queues a failed evidence item: its object key is handed to
\* the worker again.
OperatorRetry(k) ==
    /\ records[k].status = "failed"
    /\ records' = [records EXCEPT ![k].status = "queued"]
    /\ retried' = retried \cup {k}
    /\ pending' = pending \cup { [key |-> records[k].s3_key, origin |-> "retry"] }
    /\ UNCHANGED <<caseStatus, index, objects, delivered, inv, nInv, nextId, nUploads, timedOut>>
    /\ UNCHANGED frontendVars

\* case_service: a case is closed: its vector index is deleted as a whole and
\* its evidence records are soft-deleted.
CloseCase(c) ==
    /\ caseStatus[c] = "active"
    /\ caseStatus' = [caseStatus EXCEPT ![c] = "closed"]
    /\ index' = { d \in index : d[1] # c }
    /\ records' = [k \in DOMAIN records |->
                     IF k[1] = c THEN [records[k] EXCEPT !.deleted = TRUE] ELSE records[k]]
    /\ UNCHANGED <<objects, pending, delivered, inv, nInv, nextId, nUploads, retried, timedOut>>
    /\ UNCHANGED frontendVars

(***************************************************************************)
(* Evidence query API and draft composer.                                  *)
(***************************************************************************)
\* The lookup of the case before the case-access check.
AuthorizeLookupFirst(u, c) ==
    IF c \notin ExistingCases THEN "not_found"
    ELSE IF ~IsCaseMember(c, u) THEN "forbidden"
    ELSE "ok"

\* The middleware's case-access check, then the handler's lookup of the case.
Authorize(u, c) ==
    IF ~IsCaseMember(c, u) THEN "forbidden"
    ELSE IF c \notin ExistingCases THEN "not_found"
    ELSE "ok"

\* The evidence item the API returns for a record.
EvidenceView(recs, k) ==
    [ id |-> k[2], uploadDate |-> recs[k].timestamp, status |-> recs[k].status,
      summary |-> recs[k].summary ]

\* The records of the keys S as a list, ascending by timestamp.
RECURSIVE SortByTimestamp(_, _)
SortByTimestamp(recs, S) ==
    IF S = {} THEN <<>>
    ELSE LET first == CHOOSE k \in S : \A x \in S : recs[k].timestamp <= recs[x].timestamp
         IN  <<EvidenceView(recs, first)>> \o SortByTimestamp(recs, S \ {first})

\* GET /cases/{case_id}/evidence : the response in the current state.
ListEvidence(u, c) ==
    [ status |-> Authorize(u, c),
      data |-> IF Authorize(u, c) = "ok"
               THEN SortByTimestamp(records, CaseRecordKeys(records, c))
               ELSE <<>> ]

\* The evidence of a case the semantic query finds: the records with a
\* document in the index of the case.
SearchHits(recs, idx, c) ==
    { k \in CaseRecordKeys(recs, c) : <<c, VectorId(c, k[2])>> \in idx }

\* The citations of a draft: evidence id and quoted excerpt of every hit.
Citations(evidence) ==
    [ n \in 1..Len(evidence) |-> [evidence_id |-> evidence[n].id, quote |-> evidence[n].summary] ]

\* POST /cases/{case_id}/draft-preview : the response in the current state;
\* llmOk: the LLM call succeeded.
GenerateDraft(u, c, llmOk) ==
    [ status |-> IF Authorize(u, c) # "ok" THEN Authorize(u, c)
                 ELSE IF llmOk THEN "ok" ELSE "llm_error",
      citations |-> IF Authorize(u, c) = "ok" /\ llmOk
                    THEN Citations(SortByTimestamp(records, SearchHits(records, index, c)))
                    ELSE <<>> ]

(***************************************************************************)
(* Frontend: the evidence table (useEvidenceTable).                        *)
(***************************************************************************)
\* A sorting state that shows the newest upload first.
DefaultSortingDesc == [id |-> "uploadDate", desc |-> TRUE]

\* The initial sorting state of the table.
DefaultSorting == [id |-> "uploadDate", desc |-> FALSE]

\* The 'datetime' sorting function on the uploadDate column, with the
\* direction of the sorting state: TRUE when row a goes after row b.
GoesAfter(a, b, sorting) ==
    IF sorting.desc THEN a.uploadDate < b.uploadDate ELSE a.uploadDate > b.uploadDate

\* A row put into rows already sorted, behind its equals (a stable sort).
RECURSIVE InsertRow(_, _, _)
InsertRow(row, rows, sorting) ==
    IF rows = <<>> THEN <<row>>
    ELSE IF GoesAfter(rows[1], row, sorting) THEN <<row>> \o rows
    ELSE <<rows[1]>> \o InsertRow(row, Tail(rows), sorting)

\* getSortedRowModel: the rows of the table in the order of the sorting state.
RECURSIVE SortedRowModel(_, _)
SortedRowModel(data, sorting) ==
    IF data = <<>> THEN <<>>
    ELSE InsertRow(data[Len(data)], SortedRowModel(SubSeq(data, 1, Len(data) - 1), sorting), sorting)

(***************************************************************************)
(* Frontend: DraftGenerationModal.                                         *)
(***************************************************************************)
\* The longest evidence list a page hands to the modal.
MaxEvidence == 2

\* The id of the evidence item at a place of the list.
EvidenceIdAt(n) == <<"e1", "e2", "e3", "e4">>[n]

\* The evidence lists a page may hand over: items of any status.
EvidenceLists ==
    UNION { [1..n -> EvidenceStatus] : n \in 0..MaxEvidence }

\* The list of evidence items with the statuses st.
MakeEvidenceList(st) == [n \in 1..Len(st) |-> [id |-> EvidenceIdAt(n), status |-> st[n]]]

\* prev.includes(id)
Includes(ids, id) == \E n \in 1..Len(ids) : ids[n] = id

\* A page mounts the modal with the evidence of its case and opens it.
OpenModal(st) ==
    /\ ~isOpen
    /\ evidenceList = <<>>
    /\ generated = <<>>
    /\ isOpen' = TRUE
    /\ evidenceList' = MakeEvidenceList(st)
    /\ UNCHANGED <<selectedIds, generated, otherThanModal>>

\* toggleSelection: a click on the row of an evidence item.
ToggleSelection(id) ==
    /\ isOpen
    /\ \E n \in 1..Len(evidenceList) : evidenceList[n].id = id
    /\ selectedIds' = IF Includes(selectedIds, id)
                      THEN SelectSeq(selectedIds, LAMBDA i : i # id)
                      ELSE Append(selectedIds, id)
    /\ UNCHANGED <<isOpen, evidenceList, generated, otherThanModal>>

\* handleSelectAll: the select-all / clear-all button.
HandleSelectAll ==
    /\ isOpen
    /\ selectedIds' = IF Len(selectedIds) = Len(evidenceList)
                      THEN <<>>
                      ELSE [n \in 1..Len(evidenceList) |-> evidenceList[n].id]
    /\ UNCHANGED <<isOpen, evidenceList, generated, otherThanModal>>

\* The generate button (disabled while nothing is selected): onGenerate(selectedIds).
ClickGenerate ==
    /\ isOpen
    /\ Len(selectedIds) # 0
    /\ generated' = Some(selectedIds)
    /\ UNCHANGED <<isOpen, evidenceList, selectedIds, otherThanModal>>

\* The close and cancel buttons: onClose; the page hides the modal, whose
\* selection state stays.
CloseModal ==
    /\ isOpen
    /\ isOpen' = FALSE
    /\ UNCHANGED <<evidenceList, selectedIds, generated, otherThanModal>>

\* The page shows the modal again.
ReopenModal ==
    /\ ~isOpen
    /\ evidenceList # <<>>
    /\ isOpen' = TRUE
    /\ UNCHANGED <<evidenceList, selectedIds, generated, otherThanModal>>

ModalInit == PipelineIdle /\ FrontendIdle

ModalNext ==
    \/ \E st \in EvidenceLists : OpenModal(st)
    \/ \E n \in 1..MaxEvidence : ToggleSelection(EvidenceIdAt(n))
    \/ HandleSelectAll
    \/ ClickGenerate
    \/ CloseModal
    \/ ReopenModal

ModalSpec == ModalInit /\ [][ModalNext]_<<vars, frontendVars>>

(***************************************************************************)
(* Frontend: AdminRolesPage.                                               *)
(***************************************************************************)
\* The toggles a user makes in a session.
MaxToggles == 3

\* setTimeout(..., 3000): the delay of the timer that clears the message, in seconds.
TimerDelay == 3

UserRole == {"admin", "lawyer", "staff"}
ResourceKey == {"cases", "evidence", "admin", "billing"}
PermissionType == {"view", "edit", "delete"}

\* A ResourcePermission.
Permission(v, e, d) == [view |-> v, edit |-> e, delete |-> d]

\* The roles the admin API returns.
RolesData ==
    << [ role |-> "admin",
         cases |-> Permission(TRUE, TRUE, TRUE), evidence |-> Permission(TRUE, TRUE, TRUE),
         admin |-> Permission(TRUE, TRUE, TRUE), billing |-> Permission(TRUE, TRUE, TRUE) ],
       [ role |-> "lawyer",
         cases |-> Permission(TRUE, TRUE, FALSE), evidence |-> Permission(TRUE, TRUE, FALSE),
         admin |-> Permission(FALSE, FALSE, FALSE), billing |-> Permission(FALSE, FALSE, FALSE) ],
       [ role |-> "staff",
         cases |-> Permission(TRUE, FALSE, FALSE), evidence |-> Permission(TRUE, FALSE, FALSE),
         admin |-> Permission(FALSE, FALSE, FALSE), billing |-> Permission(FALSE, FALSE, FALSE) ] >>

\* The checkboxes a user clicks: <<role, resource, permission>>.
ToggleCells ==
    { <<"lawyer", "billing", "view">>, <<"lawyer", "cases", "delete">>,
      <<"staff", "evidence", "edit">> }

\* The responses of getRoles: an error, the roles, or neither.
GetRolesResults ==
    { [error |-> Some("server-error"), data |-> Null],
      [error |-> Null, data |-> Some(RolesData)],
      [error |-> Null, data |-> Null] }

\* The responses of updateRolePermissions: an error or none.
UpdateResults == { [error |-> Some("denied")], [error |-> Null] }

\* The messages handleToggle sets.
SavedMessage == <<"saved">>
ErrorMessage(e) == <<"error: ", e>>
FailedMessage == <<"save-failed">>

\* roles.find((r) => r.role === role): the place of the row, 0 when there is none.
FindRole(rs, role) ==
    IF \E n \in 1..Len(rs) : rs[n].role = role
    THEN CHOOSE n \in 1..Len(rs) :
            rs[n].role = role /\ \A m \in 1..(n - 1) : rs[m].role # role
    ELSE 0

\* updatedPermissions: copies of the four resources of a row, one permission negated.
UpdatedPermissions(currentRole, resource, permission) ==
    [ res \in ResourceKey |->
        IF res = resource
        THEN [currentRole[res] EXCEPT ![permission] = ~currentRole[res][permission]]
        ELSE currentRole[res] ]

\* { ...updatedPermissions, ...r }: the row's own fields win.
SpreadRowLast(r, updated) ==
    [ f \in DOMAIN r |-> r[f] ]

\* { ...r, ...updatedPermissions }
Spread(r, updated) ==
    [ f \in DOMAIN r |-> IF f \in DOMAIN updated THEN updated[f] ELSE r[f] ]

\* prev.map((r) => r.role === role ? row(r) : r)
MapRole(prev, role, row(_)) ==
    [ n \in 1..Len(prev) |-> IF prev[n].role = role THEN row(prev[n]) ELSE prev[n] ]

\* The table of checkboxes is rendered.
TableShown == ~isLoading /\ error = Null

\* getRoles resolves: fetchRoles goes on after its await.
FetchRolesResolve(result) ==
    /\ fetchCall = "pending"
    /\ IF result.error # Null
       THEN error' = result.error /\ roles' = roles
       ELSE IF result.data # Null
       THEN roles' = result.data[1] /\ error' = error
       ELSE UNCHANGED <<roles, error>>
    /\ isLoading' = FALSE
    /\ fetchCall' = "none"
    /\ UNCHANGED <<saveMessage, isSaving, toggleCall, timers, nToggles, lastMessage, msgAge,
                   otherThanRoles>>

\* getRoles throws.
FetchRolesReject ==
    /\ fetchCall = "pending"
    /\ error' = Some("load-failed")
    /\ isLoading' = FALSE
    /\ fetchCall' = "none"
    /\ UNCHANGED <<roles, saveMessage, isSaving, toggleCall, timers, nToggles, lastMessage,
                   msgAge, otherThanRoles>>

\* The retry button of the error view: fetchRoles up to its await.
RetryFetch ==
    /\ ~isLoading
    /\ error # Null
    /\ fetchCall = "none"
    /\ isLoading' = TRUE
    /\ error' = Null
    /\ fetchCall' = "pending"
    /\ UNCHANGED <<roles, saveMessage, isSaving, toggleCall, timers, nToggles, lastMessage,
                   msgAge, otherThanRoles>>

\* handleToggle up to its await: a click on a checkbox (disabled while saving).
HandleToggle(role, resource, permission) ==
    /\ TableShown
    /\ ~isSaving
    /\ nToggles < MaxToggles
    /\ FindRole(roles, role) # 0
    /\ LET currentRole == roles[FindRole(roles, role)]
           updated == UpdatedPermissions(currentRole, resource, permission)
       IN  /\ roles' = MapRole(roles, role, LAMBDA r : Spread(r, updated))
           /\ toggleCall' = Some([ role |-> role, resource |-> resource,
                                   permission |-> permission,
                                   currentRole |-> currentRole, before |-> roles ])
    /\ isSaving' = TRUE
    /\ saveMessage' = <<>>
    /\ nToggles' = nToggles + 1
    /\ lastMessage' = <<>>
    /\ UNCHANGED <<isLoading, error, fetchCall, timers, msgAge, otherThanRoles>>

\* The finally block of handleToggle: setIsSaving(false) and the timer.
ToggleFinally(message) ==
    /\ saveMessage' = message
    /\ isSaving' = FALSE
    /\ timers' = Append(timers, TimerDelay)
    /\ toggleCall' = NoCall
    /\ lastMessage' = message
    /\ msgAge' = 0
    /\ UNCHANGED <<isLoading, error, fetchCall, nToggles, otherThanRoles>>

\* updateRolePermissions resolves: handleToggle goes on after its await.
UpdateResolve(result) ==
    /\ toggleCall # NoCall
    /\ IF result.error # Null
       THEN /\ roles' = MapRole(roles, toggleCall[1].role, LAMBDA r : toggleCall[1].currentRole)
            /\ ToggleFinally(ErrorMessage(result.error[1]))
       ELSE /\ roles' = roles
            /\ ToggleFinally(SavedMessage)

\* A handler that leaves the optimistic update in place when the call throws.
UpdateRejectKeepsUpdate ==
    /\ toggleCall # NoCall
    /\ roles' = roles
    /\ ToggleFinally(FailedMessage)

\* updateRolePermissions throws.
UpdateReject ==
    /\ toggleCall # NoCall
    /\ roles' = MapRole(roles, toggleCall[1].role, LAMBDA r : toggleCall[1].currentRole)
    /\ ToggleFinally(FailedMessage)

\* A timer of handleToggle is due: setSaveMessage('').
TimerFire ==
    /\ timers # <<>>
    /\ Head(timers) = 0
    /\ saveMessage' = <<>>
    /\ timers' = Tail(timers)
    /\ UNCHANGED <<roles, isLoading, error, isSaving, fetchCall, toggleCall, nToggles,
                   lastMessage, msgAge, otherThanRoles>>

\* A second passes; a timer that is due fires before the next second.
Tick ==
    /\ \A n \in 1..Len(timers) : timers[n] > 0
    /\ timers' = [n \in 1..Len(timers) |-> timers[n] - 1]
    /\ msgAge' = IF msgAge < TimerDelay THEN msgAge + 1 ELSE msgAge
    /\ UNCHANGED <<roles, isLoading, error, saveMessage, isSaving, fetchCall, toggleCall,
                   nToggles, lastMessage, otherThanRoles>>

\* AdminRolesPage after its mount: the initial state and fetchRoles up to its await.
RolesMounted ==
    /\ roles = <<>>
    /\ isLoading = TRUE
    /\ error = Null
    /\ saveMessage = <<>>
    /\ isSaving = FALSE
    /\ fetchCall = "pending"
    /\ toggleCall = NoCall
    /\ timers = <<>>
    /\ nToggles = 0
    /\ lastMessage = <<>>
    /\ msgAge = 0

RolesInit ==
    PipelineIdle /\ ModalIdle /\ RolesMounted /\ LoginIdle /\ PathsIdle /\ UploadIdle /\ AuthIdle

RolesNext ==
    \/ \E result \in GetRolesResults : FetchRolesResolve(result)
    \/ FetchRolesReject
    \/ RetryFetch
    \/ \E cell \in ToggleCells : HandleToggle(cell[1], cell[2], cell[3])
    \/ \E result \in UpdateResults : UpdateResolve(result)
    \/ UpdateReject
    \/ TimerFire
    \/ Tick

RolesSpec == RolesInit /\ [][RolesNext]_<<vars, frontendVars>>

(***************************************************************************)
(* Frontend: LoginForm.                                                    *)
(***************************************************************************)
\* The submissions a user makes.
MaxSubmits == 3

\* What a user types into a field.
Emails == {"a@x", "b@x"}
Passwords == {"pw", "bad"}

\* The responses of login: an error, no data, an error with data, or a token.
LoginResponses ==
    { [error |-> Some("invalid-credentials"), data |-> Null],
      [error |-> Null, data |-> Null],
      [error |-> Some("locked"), data |-> Some([access_token |-> "token-a"])],
      [error |-> Null, data |-> Some([access_token |-> "token-a"])],
      [error |-> Null, data |-> Some([access_token |-> "token-b"])] }

\* The messages handleSubmit sets itself.
CheckCredentialsMessage == "check-credentials"
LoginFailedMessage == "login-failed"

\* onChange of the email field.
SetEmail(v) ==
    /\ route = "/login"
    /\ email' = v
    /\ UNCHANGED <<password, loginError, loading, loginCall, localStorage, route, nSubmits,
                   otherThanLogin>>

\* onChange of the password field.
SetPassword(v) ==
    /\ route = "/login"
    /\ password' = v
    /\ UNCHANGED <<email, loginError, loading, loginCall, localStorage, route, nSubmits,
                   otherThanLogin>>

\* handleSubmit up to its await: the form is submitted (both fields are
\* required, the button is disabled while loading).
HandleSubmit ==
    /\ route = "/login"
    /\ ~loading
    /\ email # "" /\ password # ""
    /\ nSubmits < MaxSubmits
    /\ loginError' = ""
    /\ loading' = TRUE
    /\ loginCall' = Some([email |-> email, password |-> password])
    /\ nSubmits' = nSubmits + 1
    /\ UNCHANGED <<email, password, localStorage, route, otherThanLogin>>

\* login resolves: handleSubmit goes on after its await, finally included.
LoginResolve(response) ==
    /\ loginCall # <<>>
    /\ IF response.error # Null \/ response.data = Null
       THEN /\ loginError' = IF response.error # Null THEN response.error[1]
                                                        ELSE CheckCredentialsMessage
            /\ UNCHANGED <<localStorage, route>>
       ELSE /\ localStorage' = [k \in DOMAIN localStorage \cup {"authToken"} |->
                                   IF k = "authToken" THEN response.data[1].access_token
                                                      ELSE localStorage[k]]
            /\ route' = "/cases"
            /\ loginError' = loginError
    /\ loading' = FALSE
    /\ loginCall' = <<>>
    /\ UNCHANGED <<email, password, nSubmits, otherThanLogin>>

\* A handler without the finally block: a thrown exception leaves loading set.
LoginRejectKeepsLoading ==
    /\ loginCall # <<>>
    /\ loginError' = LoginFailedMessage
    /\ loginCall' = <<>>
    /\ UNCHANGED <<email, password, loading, localStorage, route, nSubmits, otherThanLogin>>

\* login throws: the catch and finally blocks of handleSubmit.
LoginReject ==
    /\ loginCall # <<>>
    /\ loginError' = LoginFailedMessage
    /\ loading' = FALSE
    /\ loginCall' = <<>>
    /\ UNCHANGED <<email, password, localStorage, route, nSubmits, otherThanLogin>>

LoginInit == PipelineIdle /\ FrontendIdle

LoginNext ==
    \/ \E v \in Emails : SetEmail(v)
    \/ \E v \in Passwords : SetPassword(v)
    \/ HandleSubmit
    \/ \E response \in LoginResponses : LoginResolve(response)
    \/ LoginReject

LoginSpec == LoginInit /\ [][LoginNext]_<<vars, frontendVars>>

(***************************************************************************)
(* Frontend: portal paths and useCaseIdFromUrl.  A string is the sequence  *)
(* of its tokens; "/", "?", "=" and "&" are tokens of their own.           *)
(***************************************************************************)
PortalRole == {"lawyer", "client", "detective"}
CaseSection == {"detail", "procedure", "assets", "relations", "relationship"}

\* The case ids a link is built with: ids as the backend makes them, one
\* that holds a path separator, the empty one and the two rejected words.
CaseIds ==
    { <<"case_123">>, <<"test-case-001">>, <<"a", "/", "b">>,
      <<>>, <<"undefined">>, <<"null">> }

\* The ids of generateStaticParams: what a pre-rendered page gets as params.id.
BuildTimeIds == { <<"1">>, <<"test-case-001">> }

\* The options of a link: none, or a tab.
PathOptions == { <<>>, << <<"tab", <<"evidence">> >> >>, << <<"returnUrl", <<"/", "lawyer", "/", "cases">> >> >> }

\* encodeURIComponent: the reserved tokens are escaped.
EncodeURIComponent(str) ==
    [ n \in 1..Len(str) |->
        CASE str[n] = "/" -> "%2F"
          [] str[n] = "?" -> "%3F"
          [] str[n] = "=" -> "%3D"
          [] str[n] = "&" -> "%26"
          [] OTHER -> str[n] ]

\* The entries of options as key=value, joined by "&".
RECURSIVE QueryParams(_)
QueryParams(options) ==
    IF options = <<>> THEN <<>>
    ELSE LET entry == options[1]
             one == EncodeURIComponent(<<entry[1]>>) \o <<"=">> \o EncodeURIComponent(entry[2])
         IN  IF Len(options) = 1 THEN one
             ELSE one \o <<"&">> \o QueryParams(Tail(options))

\* !caseId || caseId === 'undefined' || caseId === 'null'
IsInvalidCaseId(caseId) ==
    caseId = <<>> \/ caseId = <<"undefined">> \/ caseId = <<"null">>

\* buildCasePath of the second copy of the path helpers: the pattern of the
\* section (of detail, for a role without that section) with :id replaced.
BuildCasePathByPattern(role, section, caseId, options) ==
    IF IsInvalidCaseId(caseId) THEN <<"/", role, "/", "cases">>
    ELSE LET sect == IF role = "lawyer" THEN section ELSE "detail"
             basePath == <<"/", role, "/", "cases", "/">> \o caseId
                            \o (IF sect # "detail" THEN <<"/", sect>> ELSE <<>>)
         IN  IF QueryParams(options) # <<>>
             THEN basePath \o <<"?">> \o QueryParams(options)
             ELSE basePath

\* buildCasePath: /{role}/cases/{caseId}/{section?}/ and the query string.
BuildCasePath(role, section, caseId, options) ==
    IF IsInvalidCaseId(caseId) THEN <<"/", role, "/", "cases", "/">>
    ELSE LET path == <<"/", role, "/", "cases", "/">> \o caseId
                        \o (IF section # "detail" THEN <<"/", section>> ELSE <<>>)
                        \o <<"/">>
         IN  IF QueryParams(options) # <<>>
             THEN path \o <<"?">> \o QueryParams(options)
             ELSE path

GetCaseDetailPath(role, caseId, options) == BuildCasePath(role, "detail", caseId, options)

GetLawyerCasePath(section, caseId, options) == BuildCasePath("lawyer", section, caseId, options)

\* getCaseDetailPath and getLawyerCasePath of the second copy.
GetCaseDetailPathByPattern(role, caseId, options) ==
    BuildCasePathByPattern(role, "detail", caseId, options)

GetLawyerCasePathByPattern(section, caseId, options) ==
    BuildCasePathByPattern("lawyer", section, caseId, options)

\* The path of a URL: what comes before the query string.
RECURSIVE PathOf(_)
PathOf(url) ==
    IF url = <<>> \/ url[1] = "?" THEN <<>>
    ELSE <<url[1]>> \o PathOf(Tail(url))

\* The longest prefix of str without a "/": what [^/]+ matches.
RECURSIVE UpToSlash(_)
UpToSlash(str) ==
    IF str = <<>> \/ str[1] = "/" THEN <<>>
    ELSE <<str[1]>> \o UpToSlash(Tail(str))

\* extractCaseIdFromPath: group 2 of /^\/(lawyer|client|detective|staff)\/cases\/([^/]+)/,
\* Null when the path does not match.
ExtractCaseIdFromPath(path) ==
    IF /\ Len(path) >= 6
       /\ path[1] = "/"
       /\ path[2] \in {"lawyer", "client", "detective", "staff"}
       /\ path[3] = "/"
       /\ path[4] = "cases"
       /\ path[5] = "/"
       /\ path[6] # "/"
    THEN UpToSlash(SubSeq(path, 6, Len(path)))
    ELSE Null

\* useCaseIdFromUrl: urlCaseId || fallbackId
UseCaseIdFromUrl(path, fallback) ==
    IF ExtractCaseIdFromPath(path) # Null THEN ExtractCaseIdFromPath(path) ELSE fallback

\* The browser follows a link to a case page; the page calls useCaseIdFromUrl
\* with the id it was built or called with.
Follow(link, from, fallback) ==
    /\ href' = link
    /\ pathname' = PathOf(link)
    /\ fallbackId' = fallback
    /\ linked' = Some(from)
    /\ effectiveId' = UseCaseIdFromUrl(PathOf(link), fallback)
    /\ UNCHANGED otherThanPaths

\* A link built by getCaseDetailPath is followed.
FollowCaseDetailLink(role, caseId, options, fallback) ==
    /\ role \in PortalRole
    /\ Follow(GetCaseDetailPath(role, caseId, options),
              [role |-> role, section |-> "detail", caseId |-> caseId, byQuery |-> FALSE,
               byPattern |-> FALSE],
              fallback)

\* A link built by getLawyerCasePath is followed.
FollowLawyerCaseLink(section, caseId, options, fallback) ==
    /\ section \in CaseSection
    /\ Follow(GetLawyerCasePath(section, caseId, options),
              [role |-> "lawyer", section |-> section, caseId |-> caseId, byQuery |-> FALSE,
               byPattern |-> FALSE],
              fallback)

\* A link built by getCaseDetailPath of the second copy is followed.
FollowCaseDetailLinkByPattern(role, caseId, options, fallback) ==
    /\ role \in PortalRole
    /\ Follow(GetCaseDetailPathByPattern(role, caseId, options),
              [role |-> role, section |-> "detail", caseId |-> caseId, byQuery |-> FALSE,
               byPattern |-> TRUE],
              fallback)

\* A link built by getLawyerCasePath of the second copy is followed.
FollowLawyerCaseLinkByPattern(section, caseId, options, fallback) ==
    /\ section \in CaseSection
    /\ Follow(GetLawyerCasePathByPattern(section, caseId, options),
              [role |-> "lawyer", section |-> section, caseId |-> caseId, byQuery |-> FALSE,
               byPattern |-> TRUE],
              fallback)

\* /lawyer/cases/detail/?caseId=... is opened: LawyerCaseDetailContent hands
\* the caseId of the query to CaseDetailClient as its id.
OpenDetailByQuery(caseId) ==
    /\ caseId # <<>>
    /\ Follow(<<"/", "lawyer", "/", "cases", "/", "detail", "/", "?", "caseId", "=">>
                  \o EncodeURIComponent(caseId),
              [role |-> "lawyer", section |-> "detail", caseId |-> caseId, byQuery |-> TRUE,
               byPattern |-> FALSE],
              caseId)

PathsInit == PipelineIdle /\ FrontendIdle

PathsNext ==
    \/ \E role \in PortalRole, caseId \in CaseIds, options \in PathOptions, fb \in BuildTimeIds :
          FollowCaseDetailLink(role, caseId, options, fb)
    \/ \E section \in CaseSection, caseId \in CaseIds, options \in PathOptions, fb \in BuildTimeIds :
          FollowLawyerCaseLink(section, caseId, options, fb)
    \/ \E role \in PortalRole, caseId \in CaseIds, options \in PathOptions, fb \in BuildTimeIds :
          FollowCaseDetailLinkByPattern(role, caseId, options, fb)
    \/ \E section \in CaseSection, caseId \in CaseIds, options \in PathOptions, fb \in BuildTimeIds :
          FollowLawyerCaseLinkByPattern(section, caseId, options, fb)
    \/ \E caseId \in CaseIds : OpenDetailByQuery(caseId)

PathsSpec == PathsInit /\ [][PathsNext]_<<vars, frontendVars>>

(***************************************************************************)
(* Frontend: ClientEvidencePortalPage.  A timer is known by its id; the    *)
(* browser may fire any pending timer.                                     *)
(***************************************************************************)
MaxSelections == 6

UploadStatus == {"idle", "uploading", "success", "error"}

\* The file lists the upload card hands to onSelectFiles: the names.
FileLists ==
    { <<>>, <<"a.pdf">>, <<"a.pdf", "b.png">>, <<"c.jpg">>, <<"a.pdf", "b.png", "c.jpg">> }

\* clearUploadTimer leaves every timer running.
ClearUploadTimerLeavesTimer(running, ref) == running

\* clearUploadTimer: the timers left pending once the timer of the ref, if
\* any, is cleared.
ClearUploadTimer(running, ref) ==
    IF ref # Null THEN running \ {ref[1]} ELSE running

\* handleFilesSelected that returns on an empty list before anything else.
HandleFilesSelectedEmptyFirst(files) ==
    /\ portalMounted
    /\ nSelections < MaxSelections
    /\ nSelections' = nSelections + 1
    /\ IF Len(files) = 0
       THEN /\ status' = "error"
            /\ uploadedFiles' = <<>>
            /\ uploadedCount' = 0
            /\ UNCHANGED <<pendingTimers, uploadTimerRef>>
       ELSE /\ uploadedCount' = Len(files)
            /\ uploadedFiles' = files
            /\ status' = "uploading"
            /\ pendingTimers' =
                  ClearUploadTimer(pendingTimers, uploadTimerRef) \cup {nSelections + 1}
            /\ uploadTimerRef' = Some(nSelections + 1)
    /\ UNCHANGED <<portalMounted, firedUnmounted>>
    /\ UNCHANGED otherThanUpload

\* handleFilesSelected(files); the timer it sets gets a fresh id.
HandleFilesSelected(files) ==
    /\ portalMounted
    /\ nSelections < MaxSelections
    /\ nSelections' = nSelections + 1
    /\ IF Len(files) = 0
       THEN /\ status' = "error"
            /\ uploadedFiles' = <<>>
            /\ uploadedCount' = 0
            /\ pendingTimers' = ClearUploadTimer(pendingTimers, uploadTimerRef)
            /\ uploadTimerRef' = Null
       ELSE /\ uploadedCount' = Len(files)
            /\ uploadedFiles' = files
            /\ status' = "uploading"
            /\ pendingTimers' =
                  ClearUploadTimer(pendingTimers, uploadTimerRef) \cup {nSelections + 1}
            /\ uploadTimerRef' = Some(nSelections + 1)
    /\ UNCHANGED <<portalMounted, firedUnmounted>>
    /\ UNCHANGED otherThanUpload

\* The callback of a pending timer runs; setStatus does nothing once the
\* component is unmounted.
UploadTimerFire(id) ==
    /\ id \in pendingTimers
    /\ pendingTimers' = pendingTimers \ {id}
    /\ status' = IF portalMounted THEN "success" ELSE status
    /\ uploadTimerRef' = Null
    /\ firedUnmounted' = (firedUnmounted \/ ~portalMounted)
    /\ UNCHANGED <<uploadedCount, uploadedFiles, portalMounted, nSelections>>
    /\ UNCHANGED otherThanUpload

\* The component unmounts: the cleanup of its effect runs.
UnmountPortal ==
    /\ portalMounted
    /\ portalMounted' = FALSE
    /\ pendingTimers' = ClearUploadTimer(pendingTimers, uploadTimerRef)
    /\ uploadTimerRef' = Null
    /\ UNCHANGED <<status, uploadedCount, uploadedFiles, nSelections, firedUnmounted>>
    /\ UNCHANGED otherThanUpload

UploadInit == PipelineIdle /\ FrontendIdle

UploadNext ==
    \/ \E files \in FileLists : HandleFilesSelected(files)
    \/ \E id \in 1..MaxSelections : UploadTimerFire(id)
    \/ UnmountPortal

UploadSpec == UploadInit /\ [][UploadNext]_<<vars, frontendVars>>

(***************************************************************************)
(* Frontend: useAuth and CasesPage.  The state updates of one synchronous  *)
(* stretch of a handler are one step; the effects of CasesPage run with    *)
(* the render that follows it.                                             *)
(***************************************************************************)
MaxAuthOps == 2

APP_VERSION == "0.3.0"

\* The users getCurrentUser may answer with.
AuthUsers ==
    { [id |-> "u1", email |-> "kim@firm.kr", name |-> "kim", role |-> "lawyer"],
      [id |-> "u2", email |-> "lee@firm.kr", name |-> "lee", role |-> "staff"] }

\* JSON.stringify(userData): the string written to the cache.
JsonStringify(userData) ==
    <<"{", userData.id, userData.email, userData.name, userData.role, "}">>

\* JSON.parse of a cached string; Null stands for the exception.
JsonParse(str) ==
    IF Len(str) = 6 /\ str[1] = "{" /\ str[6] = "}"
    THEN Some([id |-> str[2], email |-> str[3], name |-> str[4], role |-> str[5]])
    ELSE Null

\* What an earlier session of the hook may have left in localStorage.
CachedUsers == {Null} \cup { Some(JsonStringify(u)) : u \in AuthUsers }

StoredVersions == {Null, Some("0.2.0"), Some(APP_VERSION)}

\* The answers of getCurrentUser: an error, no data, a user, or a throw.
CurrentUserResponses ==
    { [error |-> Some("unauthorized"), data |-> Null, throws |-> FALSE],
      [error |-> Null, data |-> Null, throws |-> FALSE],
      [error |-> Null, data |-> Null, throws |-> TRUE] }
    \cup { [error |-> Null, data |-> Some(u), throws |-> FALSE] : u \in AuthUsers }

\* The answers of getCases.
GetCasesResponses ==
    { [error |-> Some("server error"), data |-> Null, throws |-> FALSE],
      [error |-> Null, data |-> Some(<<>>), throws |-> FALSE],
      [error |-> Null, data |-> Some(<<"case_123">>), throws |-> FALSE],
      [error |-> Null, data |-> Null, throws |-> FALSE],
      [error |-> Null, data |-> Null, throws |-> TRUE] }

\* The sequence seq without its i-th element.
RemoveAt(seq, i) == SubSeq(seq, 1, i - 1) \o SubSeq(seq, i + 1, Len(seq))

\* fetchCases that looks at isAuthenticated alone.
ShouldFetchCasesIgnoresLoading(authLoading, authed) == authed

\* fetchCases goes on unless (isAuthLoading || !isAuthenticated).
ShouldFetchCases(authLoading, authed) == ~(authLoading \/ ~authed)

\* The two effects of CasesPage after a render with the given isAuthLoading
\* and isAuthenticated; pushed is the route the handler itself has left the
\* router at.  The effects run when one of the two values has changed.
CasesEffects(authLoading, authed, pushed) ==
    IF casesRoute # "/cases" \/ <<authLoading, authed>> = <<isAuthLoading, isAuthenticated>>
    THEN /\ casesRoute' = pushed
         /\ UNCHANGED <<cases, casesLoading, casesError, getCasesCalls, getCasesLog>>
    ELSE /\ casesRoute' = IF ~authLoading /\ ~authed THEN "/login" ELSE pushed
         /\ IF ShouldFetchCases(authLoading, authed)
            THEN /\ casesLoading' = TRUE
                 /\ casesError' = Null
                 /\ getCasesCalls' = getCasesCalls + 1
                 /\ getCasesLog' =
                       Append(getCasesLog, [isAuthLoading |-> authLoading, isAuthenticated |-> authed])
            ELSE UNCHANGED <<casesLoading, casesError, getCasesCalls, getCasesLog>>
         /\ UNCHANGED cases

\* checkVersion: the cache left once a cache of another version is dropped.
CheckVersion ==
    IF appVersion # Null /\ appVersion # Some(APP_VERSION) THEN Null ELSE userCache

\* The effect of useAuth starts initAuth: checkVersion, the cached user, and
\* the call of verifyAuth.
InitAuth ==
    /\ authPhase = "mounted"
    /\ authPhase' = "ready"
    /\ appVersion' = Some(APP_VERSION)
    /\ userCache' = CheckVersion
    /\ LET parsed == IF CheckVersion # Null THEN JsonParse(CheckVersion[1]) ELSE Null
       IN  /\ user' = IF parsed # Null THEN parsed ELSE user
           /\ isAuthenticated' = IF parsed # Null THEN TRUE ELSE isAuthenticated
    /\ authCalls' = Append(authCalls, [kind |-> "init", stale |-> FALSE])
    /\ CasesEffects(isAuthLoading, isAuthenticated', casesRoute)
    /\ UNCHANGED <<isAuthLoading, nAuthOps, clearedSince, serverAccepted>>
    /\ UNCHANGED otherThanAuth

\* refreshAuth is called.
RefreshAuth ==
    /\ authPhase = "ready"
    /\ nAuthOps < MaxAuthOps
    /\ nAuthOps' = nAuthOps + 1
    /\ isAuthLoading' = TRUE
    /\ authCalls' = Append(authCalls, [kind |-> "refresh", stale |-> FALSE])
    /\ CasesEffects(TRUE, isAuthenticated, casesRoute)
    /\ UNCHANGED <<isAuthenticated, user, userCache, appVersion, authPhase, clearedSince,
                   serverAccepted>>
    /\ UNCHANGED otherThanAuth

\* verifyAuth is called by a user of the hook.
VerifyAuth ==
    /\ authPhase = "ready"
    /\ nAuthOps < MaxAuthOps
    /\ nAuthOps' = nAuthOps + 1
    /\ authCalls' = Append(authCalls, [kind |-> "verify", stale |-> FALSE])
    /\ UNCHANGED <<isAuthenticated, isAuthLoading, user, userCache, appVersion, authPhase,
                   clearedSince, serverAccepted>>
    /\ UNCHANGED casesVars
    /\ UNCHANGED otherThanAuth

\* getCurrentUser of the i-th call answers: the rest of verifyAuth runs, and
\* then the rest of initAuth or refreshAuth if one of them awaited it.
VerifyResolve(i, response) ==
    /\ i \in DOMAIN authCalls
    /\ authCalls[i].kind \in {"init", "refresh", "verify"}
    /\ authCalls' = RemoveAt(authCalls, i)
    /\ LET ok == ~response.throws /\ response.error = Null /\ response.data # Null
           authLoading == IF authCalls[i].kind = "verify" THEN isAuthLoading ELSE FALSE
       IN  /\ isAuthenticated' = ok
           /\ user' = IF ok THEN response.data ELSE Null
           /\ userCache' = IF ok THEN Some(JsonStringify(response.data[1])) ELSE Null
           /\ isAuthLoading' = authLoading
           /\ serverAccepted' = (serverAccepted \/ ok)
           /\ clearedSince' = (clearedSince /\ ~(ok /\ ~authCalls[i].stale))
           /\ CasesEffects(authLoading, ok, casesRoute)
    /\ UNCHANGED <<appVersion, authPhase, nAuthOps>>
    /\ UNCHANGED otherThanAuth

\* logout is called: logoutApi is in flight.
Logout ==
    /\ authPhase = "ready"
    /\ nAuthOps < MaxAuthOps
    /\ nAuthOps' = nAuthOps + 1
    /\ authCalls' = Append(authCalls, [kind |-> "logout", stale |-> FALSE])
    /\ UNCHANGED <<isAuthenticated, isAuthLoading, user, userCache, appVersion, authPhase,
                   clearedSince, serverAccepted>>
    /\ UNCHANGED casesVars
    /\ UNCHANGED otherThanAuth

\* logout that leaves the cached user in localStorage.
LogoutClearedCache(cache) == cache

\* logout: localStorage.removeItem(USER_CACHE_KEY).
LogoutClearedCacheRemoved(cache) == Null

\* logoutApi of the i-th call has answered or thrown: the local state is
\* cleared and the router goes to /login.  The getCurrentUser calls in
\* flight are from before the logout.
LogoutResolve(i) ==
    /\ i \in DOMAIN authCalls
    /\ authCalls[i].kind = "logout"
    /\ authCalls' =
          [ n \in 1..(Len(authCalls) - 1) |->
              [RemoveAt(authCalls, i)[n] EXCEPT !.stale = TRUE] ]
    /\ isAuthenticated' = FALSE
    /\ user' = Null
    /\ userCache' = LogoutClearedCacheRemoved(userCache)
    /\ clearedSince' = TRUE
    /\ CasesEffects(isAuthLoading, FALSE, "/login")
    /\ UNCHANGED <<isAuthLoading, appVersion, authPhase, nAuthOps, serverAccepted>>
    /\ UNCHANGED otherThanAuth

\* getCases answers: the rest of fetchCases.  The setters do nothing once
\* the page is left.
GetCasesResolve(response) ==
    /\ getCasesCalls > 0
    /\ getCasesCalls' = getCasesCalls - 1
    /\ IF casesRoute # "/cases"
       THEN UNCHANGED <<cases, casesError, casesLoading>>
       ELSE /\ casesLoading' = FALSE
            /\ IF response.throws
               THEN casesError' = Some("load-failed") /\ cases' = <<>>
               ELSE IF response.error # Null
               THEN casesError' = response.error /\ cases' = <<>>
               ELSE IF response.data # Null
               THEN cases' = response.data[1] /\ UNCHANGED casesError
               ELSE UNCHANGED <<cases, casesError>>
    /\ UNCHANGED <<casesRoute, getCasesLog>>
    /\ UNCHANGED authVars
    /\ UNCHANGED otherThanAuth

\* CasesPage shows the case list rather than the authLoading screen.
CaseListShown ==
    casesRoute = "/cases" /\ ~(isAuthLoading \/ ~isAuthenticated \/ casesLoading)

AuthInit ==
    /\ PipelineIdle
    /\ ModalIdle /\ RolesIdle /\ LoginIdle /\ PathsIdle /\ UploadIdle
    /\ AuthMounted
    /\ userCache \in CachedUsers
    /\ appVersion \in StoredVersions

AuthNext ==
    \/ InitAuth
    \/ RefreshAuth
    \/ VerifyAuth
    \/ \E i \in 1..(MaxAuthOps + 1), response \in CurrentUserResponses : VerifyResolve(i, response)
    \/ Logout
    \/ \E i \in 1..(MaxAuthOps + 1) : LogoutResolve(i)
    \/ \E response \in GetCasesResponses : GetCasesResolve(response)

AuthSpec == AuthInit /\ [][AuthNext]_<<vars, frontendVars>>

(***************************************************************************)
(* The pipeline.                                                           *)
(***************************************************************************)
Next ==
    \/ \E u \in Users, c \in Cases, fn \in FileNames : RequestUpload(u, c, fn)
    \/ \E key \in IssuedKeys : Upload(key)
    \/ \E c \in ExistingCases, fn \in LegacyFileNames : UploadLegacy(c, fn)
    \/ \E ev \in pending : Deliver(ev)
    \/ \E key \in delivered : Redeliver(key)
    \/ \E i \in 1..MaxEvents : WorkerCommitSuccess(i)
    \/ \E i \in 1..MaxEvents : WorkerUpsertVector(i)
    \/ \E i \in 1..MaxEvents : WorkerCommitFailure(i)
    \/ \E i \in 1..MaxEvents : WorkerTimeout(i)
    \/ \E k \in DOMAIN records : OperatorRetry(k)
    \/ \E c \in ExistingCases : CloseCase(c)

Spec == Init /\ [][Next]_vars

(***************************************************************************)
(* Properties.                                                             *)
(***************************************************************************)
\* The running invocations.
Running == { i \in 1..MaxEvents : inv[i].pc # "idle" }

\* C1: the status of every evidence record changes only along the edges
\* uploading -> queued -> processing -> {completed, failed, review_needed}
\* and failed -> queued.
C1_StatusEdgesOnly ==
    [][\A k \in DOMAIN records :
          records'[k].status # records[k].status
              => <<records[k].status, records'[k].status>> \in StatusEdges]_vars

\* A key of the canonical shape cases/{c}/raw/{eid}_{name}: four segments, the
\* last one the evidence id, an underscore and a name without path separators.
IsCanonicalKey(key, c, eid) ==
    /\ Len(key) = 4
    /\ key[1] = "cases" /\ key[2] = c /\ key[3] = "raw"
    /\ Len(key[4]) > Len(eid) + 1
    /\ SubSeq(key[4], 1, Len(eid)) = eid
    /\ key[4][Len(eid) + 1] = "_"
    /\ \A n \in 1..Len(key[4]) : key[4][n] \notin {"/", ".."}

BetweenWrites(k) ==
    \E i \in Running : inv[i].pc = "recorded" /\ <<ExtractCaseId(inv[i].key), inv[i].eid>> = k

\* C3: every record whose status is completed has summary, labels and content,
\* and a vector document in the index of its case (a record whose writer is
\* still between its two writes is not counted).
C3_CompletedHasAnalysisAndVector ==
    \A k \in DOMAIN records :
        (records[k].status = "completed" /\ ~BetweenWrites(k))
            => /\ records[k].summary # Null
               /\ records[k].labels # Null
               /\ records[k].content # Null
               /\ <<k[1], VectorId(k[1], k[2])>> \in index

\* The record an invocation with an evidence id writes to.
RecordOf(i) == <<ExtractCaseId(inv[i].key), inv[i].eid>>

\* The analysis fields of record k are those of the payload.
HoldsPayload(k, payload) ==
    /\ k \in DOMAIN records
    /\ records[k].summary = payload.summary
    /\ records[k].labels = payload.labels
    /\ records[k].content = payload.content
    /\ records[k].vector_id = payload.vector_id

\* C4: a success commit applied again with the same payload for the same
\* (case_id, evidence_id) leaves status and analysis fields as the first one
\* left them, and adds no record and no vector document.
C4_CommitTwiceAsOnce ==
    [][\A i \in 1..MaxEvents :
          LET k == RecordOf(i)
              payload == SuccessPayload(k[1], k[2], inv[i].key)
          IN  /\ (WorkerCommitSuccess(i) /\ inv[i].eid # NoId /\ HoldsPayload(k, payload))
                     => /\ records'[k].status = "completed"
                        /\ records'[k].summary = records[k].summary
                        /\ records'[k].labels = records[k].labels
                        /\ records'[k].content = records[k].content
                        /\ records'[k].vector_id = records[k].vector_id
                        /\ records'[k].reason = Null
                        /\ DOMAIN records' = DOMAIN records
                        /\ index' = index
              /\ (WorkerUpsertVector(i) /\ <<k[1], VectorId(k[1], k[2])>> \in index)
                     => /\ index' = index
                        /\ records' = records]_vars

\* C4, witness: a redelivered invocation has written the record a second time,
\* after an earlier invocation wrote record and vector document.
C4_Witness ==
    \E i \in Running :
        /\ inv[i].pc = "recorded"
        /\ inv[i].origin = "redelivery"
        /\ records[RecordOf(i)].status = "completed"
        /\ <<RecordOf(i)[1], VectorId(RecordOf(i)[1], RecordOf(i)[2])>> \in index

\* The users who are no member of a case.
NonMembers(c) == { u \in Users : ~IsCaseMember(c, u) }

\* C5: for a user who is not a member of the case, listEvidence and
\* generateDraft answer with the authorization error and no data, the same
\* for a case that exists and for one that does not.
C5_NonMembersGetNothing ==
    \A c \in Cases : \A u \in NonMembers(c) :
        /\ ListEvidence(u, c) = [status |-> "forbidden", data |-> <<>>]
        /\ \A llmOk \in BOOLEAN :
              GenerateDraft(u, c, llmOk) = [status |-> "forbidden", citations |-> <<>>]

\* C5, witness: a case holds evidence and citable documents its members get,
\* and a user is a member of neither that case nor of a case that does not exist.
C5_Witness ==
    /\ ListEvidence("u1", "c1").data # <<>>
    /\ GenerateDraft("u1", "c1", TRUE).citations # <<>>
    /\ "u2" \in NonMembers("c1") \cap NonMembers("c0")
    /\ "c0" \notin ExistingCases

\* The records written for an object key.
RecordsOfKey(key) == { k \in DOMAIN records : records[k].s3_key = key }

\* C6: an upload under a legacy key has at most one evidence record, and
\* exactly one once the worker has written for it.
C6_OneRecordPerLegacyUpload ==
    \A key \in DOMAIN objects :
        ExtractEvidenceId(key) = NoId => Cardinality(RecordsOfKey(key)) <= 1

NoneRunningOn(k) == \A i \in Running : inv[i].key # records[k].s3_key

\* Record k is left in processing by an invocation that timed out.
Orphaned(k) ==
    /\ records[k].status = "processing"
    /\ records[k].s3_key \in timedOut
    /\ NoneRunningOn(k)

C9_FailedUntilOperatorRetry ==
    [][/\ \A i \in 1..MaxEvents :
             WorkerCommitFailure(i)
                 => LET k == <<ExtractCaseId(inv[i].key), CommitEvidenceId(i)>>
                    IN  records'[k].status = "failed" /\ records'[k].reason # Null
       /\ \A k \in DOMAIN records :
             (records[k].status = "failed" /\ records'[k].status # "failed")
                 => OperatorRetry(k)]_vars

\* data is ascending by upload date.
AscendingByUploadDate(data) ==
    \A m, n \in 1..Len(data) : m < n => data[m].uploadDate <= data[n].uploadDate

\* C10: the evidence list of a case is ascending by upload time, the table in
\* its default sorting shows it in that order, and no step changes the upload
\* time of a record.
C10_ListedInUploadOrder ==
    [][/\ \A c \in ExistingCases : \A u \in Users :
             IsCaseMember(c, u)
                 => LET data == ListEvidence(u, c).data
                    IN  /\ AscendingByUploadDate(data)
                        /\ SortedRowModel(data, DefaultSorting) = data
       /\ \A k \in DOMAIN records : records'[k].timestamp = records[k].timestamp]_vars

\* C10, witness: of two listed items the one uploaded later is completed while
\* the one uploaded earlier is still being processed.
C10_Witness ==
    LET data == ListEvidence("u1", "c1").data
    IN  /\ Len(data) = 2
        /\ data[1].uploadDate < data[2].uploadDate
        /\ data[1].status = "processing"
        /\ data[2].status = "completed"

\* The status of the evidence item with an id in the list the modal shows.
StatusOf(id) ==
    LET n == CHOOSE m \in 1..Len(evidenceList) : evidenceList[m].id = id
    IN  evidenceList[n].status

\* C11: in DraftGenerationModal only completed evidence is ever selected, and
\* onGenerate is never called with the id of an item that is not completed.
C11_OnlyCompletedSelectable ==
    /\ \A n \in 1..Len(selectedIds) : StatusOf(selectedIds[n]) = "completed"
    /\ generated # <<>>
           => \A n \in 1..Len(generated[1]) : StatusOf(generated[1][n]) = "completed"

\* C12: requestUpload answers a caller without upload access to the case with
\* the permission error and a caller with access to a closed case with the
\* conflict error; an error mints no key and creates no record.
C12_RequestUploadErrors ==
    [][\A u \in Users, c \in Cases, fn \in FileNames :
          LET r == RequestUploadResponse(u, c, fn)
          IN  /\ ~CanUpload(c, u) => r.status = "forbidden"
              /\ (CanUpload(c, u) /\ caseStatus[c] = "closed") => r.status = "conflict"
              /\ r.status # "ok" => r.file_key = <<>>
              /\ \/ records' = records
                 \/ ~(r.status # "ok" /\ RequestUpload(u, c, fn))]_vars

\* C12, witness: the case is closed; its owner gets the conflict error, a
\* viewer and a non-member the permission error.
C12_Witness ==
    /\ caseStatus["c1"] = "closed"
    /\ \E fn \in FileNames :
          /\ RequestUploadResponse("u1", "c1", fn).status = "conflict"
          /\ RequestUploadResponse("u3", "c1", fn).status = "forbidden"
          /\ RequestUploadResponse("u2", "c1", fn).status = "forbidden"

\* The terminal statuses of an evidence record.
TerminalStatus == {"completed", "failed", "review_needed"}

\* The step writes the terminal status or an analysis field of record k.
WritesTerminalState(k) ==
    IF k \in DOMAIN records
    THEN \/ records'[k].status # records[k].status /\ records'[k].status \in TerminalStatus
         \/ records'[k].summary # records[k].summary
         \/ records'[k].labels # records[k].labels
         \/ records'[k].content # records[k].content
         \/ records'[k].vector_id # records[k].vector_id
    ELSE records'[k].status \in TerminalStatus \/ records'[k].summary # Null

\* Every write of terminal state is a commit of the result writer.
OnlyWorkerWritesTerminal ==
    \A k \in DOMAIN records' :
        WritesTerminalState(k)
            => \E i \in 1..MaxEvents : WorkerCommitSuccess(i) \/ WorkerCommitFailure(i)

\* No two running invocations work on the same evidence record.
OneWriterPerRecord ==
    \A i, j \in Running :
        (i # j /\ inv[i].eid # NoId /\ inv[j].eid # NoId) => RecordOf(i) # RecordOf(j)

\* C13: only commits of the result writer write terminal status and analysis
\* fields, and at most one invocation at a time is active on an evidence item.
C13_SingleWriter == [][OnlyWorkerWritesTerminal /\ OneWriterPerRecord]_vars

\* C13, first half alone: only commits of the result writer write terminal
\* status and analysis fields.
C13_BackendNeverWritesTerminal == [][OnlyWorkerWritesTerminal]_vars

\* No step removes an evidence record.
NeverHardDeleted == DOMAIN records \subseteq DOMAIN records'

\* Every record of case c is marked deleted and the index of c holds no document.
CleanedUp(c) ==
    /\ \A k \in DOMAIN records : k[1] = c => records[k].deleted
    /\ \A d \in index : d[1] # c

\* C14: no evidence record is ever removed, and once a case is closed all its
\* records are marked deleted and its vector index holds no document.
C14_ClosedCaseSoftDeleted ==
    [][/\ NeverHardDeleted
       /\ \A c \in ExistingCases : caseStatus[c] = "closed" => CleanedUp(c)]_vars

\* C14, the step of closing alone: no record is ever removed, and the step
\* that closes a case leaves its records marked deleted and its index empty.
C14_CloseCaseStep ==
    [][/\ NeverHardDeleted
       /\ \A c \in ExistingCases : CloseCase(c) => CleanedUp(c)']_vars

\* The rows rs with the checkbox of a handleToggle call negated.
FlipCell(rs, call) ==
    [ n \in 1..Len(rs) |->
        IF rs[n].role = call.role
        THEN [rs[n] EXCEPT ![call.resource][call.permission] = ~@]
        ELSE rs[n] ]

\* C15: when updateRolePermissions succeeds, the displayed roles are those
\* before the toggle with the toggled permission flipped and nothing else
\* changed, and the saved message is shown.
C15_ToggleSuccessFlipsOneCell ==
    [][\A result \in UpdateResults :
          (result.error = Null /\ UpdateResolve(result))
              => /\ roles' = FlipCell(toggleCall[1].before, toggleCall[1])
                 /\ roles' # toggleCall[1].before
                 /\ saveMessage' = SavedMessage]_<<vars, frontendVars>>

\* C15, witness: a toggle was saved: the message is shown and a checkbox
\* differs from what was loaded.
C15_Witness ==
    /\ toggleCall = NoCall
    /\ nToggles = 1
    /\ saveMessage = SavedMessage
    /\ \E cell \in ToggleCells :
          roles = FlipCell(RolesData, [role |-> cell[1], resource |-> cell[2], permission |-> cell[3]])

\* C19: when updateRolePermissions returns an error or throws, the roles
\* after handleToggle are the roles before the toggle and isSaving is false.
C19_ToggleFailureReverts ==
    [][/\ \A result \in UpdateResults :
             (result.error # Null /\ UpdateResolve(result))
                 => roles' = toggleCall[1].before /\ isSaving' = FALSE
       /\ UpdateReject => roles' = toggleCall[1].before /\ isSaving' = FALSE]_<<vars, frontendVars>>

\* C19, witness: after a saved toggle a second one failed and was reverted.
C19_Witness ==
    /\ toggleCall = NoCall
    /\ nToggles = 2
    /\ ~isSaving
    /\ saveMessage \in {ErrorMessage("denied"), FailedMessage}
    /\ roles # RolesData

\* C20: the message a finished toggle set stays displayed until 3 seconds
\* after that toggle finished, unless a later toggle replaces it.
C20_MessageStaysThreeSeconds ==
    (lastMessage # <<>> /\ msgAge < TimerDelay) => saveMessage = lastMessage

\* C16: a login response with an error or without data shows an error
\* message, stores nothing and does not navigate; a successful one stores the
\* access token under authToken and navigates to /cases; after every outcome,
\* a thrown exception included, loading is false.
C16_LoginOutcomes ==
    [][/\ \A response \in LoginResponses :
             LoginResolve(response)
                 => /\ loading' = FALSE
                    /\ IF response.error # Null \/ response.data = Null
                       THEN /\ loginError' # ""
                            /\ localStorage' = localStorage
                            /\ route' = route
                       ELSE /\ localStorage'["authToken"] = response.data[1].access_token
                            /\ route' = "/cases"
       /\ LoginReject
             => /\ loading' = FALSE
                /\ loginError' # ""
                /\ localStorage' = localStorage
                /\ route' = route]_<<vars, frontendVars>>

\* C16, witness: a first submission failed, a second one logged in.
C16_Witness ==
    /\ nSubmits = 2
    /\ ~loading
    /\ loginCall = <<>>
    /\ route = "/cases"
    /\ "authToken" \in DOMAIN localStorage

\* C17: on a case page reached by a link built with a valid caseId,
\* useCaseIdFromUrl returns that caseId whatever the fallback id is; on a page
\* whose path holds no case id it returns the fallback id.
C17_UrlCaseIdPreferred ==
    linked # <<>>
        => IF linked[1].byQuery \/ IsInvalidCaseId(linked[1].caseId)
           THEN effectiveId = fallbackId
           ELSE effectiveId = linked[1].caseId

\* The path the claim gives for a role, a section and a case id.
ExpectedCasePath(role, section, caseId) ==
    <<"/", role, "/", "cases", "/">> \o caseId
        \o (IF section = "detail" THEN <<>> ELSE <<"/", section>>) \o <<"/">>

\* C18: a link built by getCaseDetailPath or getLawyerCasePath with a valid
\* caseId is /{role}/cases/{caseId}/, with /{section} before the final slash
\* when the section is not detail, then at most a query string; with an
\* invalid caseId it is the case list path /{role}/cases/.
C18_CasePathShape ==
    (linked # <<>> /\ ~linked[1].byQuery)
        => /\ pathname = IF IsInvalidCaseId(linked[1].caseId)
                         THEN <<"/", linked[1].role, "/", "cases", "/">>
                         ELSE ExpectedCasePath(linked[1].role, linked[1].section, linked[1].caseId)
           /\ pathname[Len(pathname)] = "/"
           /\ \/ href = pathname
              \/ /\ ~IsInvalidCaseId(linked[1].caseId)
                 /\ Len(href) > Len(pathname) + 1
                 /\ href[Len(pathname) + 1] = "?"

\* The links of src/frontend/src/lib/portalPaths.ts alone have the shape of C18.
C18_LibCasePathShape ==
    (linked # <<>> /\ ~linked[1].byPattern) => C18_CasePathShape

\* A link of portalPaths.ts to a section page with a query string was followed.
C18_LibWitness ==
    /\ linked # <<>>
    /\ ~linked[1].byQuery
    /\ ~linked[1].byPattern
    /\ href = <<"/", "lawyer", "/", "cases", "/", "case_123", "/", "procedure", "/",
                "?", "tab", "=", "evidence">>

\* What holds of the timers of the upload simulation in a state.
UploadTimerInv ==
    /\ portalMounted
          => /\ Cardinality(pendingTimers) <= 1
             /\ (status = "uploading") <=> (pendingTimers # {})
    /\ ~firedUnmounted

\* C22: while ClientEvidencePortalPage is mounted at most one upload timer is
\* pending and status is 'uploading' exactly when one is; status becomes
\* 'success' only by a timer firing from 'uploading'; after the unmount no
\* timer fires.
C22_OneUploadTimer ==
    [][/\ UploadTimerInv
       /\ UploadTimerInv'
       /\ (status' = "success" /\ status # "success")
             => /\ status = "uploading"
                /\ \E id \in pendingTimers : UploadTimerFire(id)]_<<vars, frontendVars>>

\* C22, witness: after three selections the component was unmounted while an
\* upload was running, and its timer is gone.
C22_Witness ==
    /\ nSelections = 3
    /\ status = "uploading"
    /\ ~portalMounted
    /\ pendingTimers = {}

\* C23: selecting an empty file list sets status to 'error', uploadedCount to
\* 0 and uploadedFiles to empty and leaves no timer pending; from a state with
\* status 'error' no step makes the status 'success'.
C23_EmptySelectionCancels ==
    [][/\ HandleFilesSelected(<<>>)
             => /\ status' = "error"
                /\ uploadedCount' = 0
                /\ uploadedFiles' = <<>>
                /\ pendingTimers' = {}
                /\ uploadTimerRef' = Null
       /\ status = "error" => status' # "success"]_<<vars, frontendVars>>

\* C23, witness: the empty list was selected while an upload was running.
C23_Witness ==
    /\ nSelections = 2
    /\ status = "error"
    /\ uploadedCount = 0
    /\ uploadedFiles = <<>>
    /\ pendingTimers = {}

\* C21: every getCases call of CasesPage was made with the auth check finished
\* and isAuthenticated true; with the auth check finished and isAuthenticated
\* false the router is at /login and no case list is shown; as long as the
\* server has accepted no user, getCases has not been called.
C21_GetCasesOnlyWhenAuthenticated ==
    /\ \A n \in DOMAIN getCasesLog :
          ~getCasesLog[n].isAuthLoading /\ getCasesLog[n].isAuthenticated
    /\ (authPhase = "ready" /\ ~isAuthLoading /\ ~isAuthenticated)
          => (casesRoute = "/login" /\ ~CaseListShown)
    /\ ~serverAccepted => (getCasesLog = <<>> /\ ~CaseListShown)

\* The server has rejected the session on the first check and the page has
\* gone to /login without a getCases call.
C21_Rejected ==
    /\ authPhase = "ready"
    /\ appVersion = Some(APP_VERSION)
    /\ ~isAuthLoading
    /\ ~isAuthenticated
    /\ ~serverAccepted
    /\ ~clearedSince
    /\ nAuthOps = 0
    /\ casesRoute = "/login"
    /\ getCasesLog = <<>>

\* C21, witness: initAuth has taken the user cached in localStorage, so that
\* isAuthenticated is true while the server has not answered; the effects of
\* CasesPage have run on that render and getCases has not been called.
C21_Witness ==
    /\ authPhase = "ready"
    /\ isAuthLoading
    /\ isAuthenticated
    /\ ~serverAccepted
    /\ userCache # Null
    /\ casesRoute = "/cases"
    /\ getCasesLog = <<>>

\* C24: from the moment logout has cleared the local state until a verifyAuth
\* started after it succeeds, isAuthenticated is false, user is null and the
\* userCache entry is absent, whatever answers arrive for calls started
\* before the logout.
C24_LogoutStaysLoggedOut ==
    clearedSince => (~isAuthenticated /\ user = Null /\ userCache = Null)

\* C25: once initAuth has started, isAuthenticated is true exactly when user
\* is non-null, and the userCache entry exists only if user is non-null.
C25_AuthenticatedIffUser ==
    authPhase = "ready"
        => /\ isAuthenticated <=> (user # Null)
           /\ userCache # Null => user # Null

\* C25, witness: after a refreshAuth that succeeded and a logout all three
\* are cleared, with the version check done.
C25_Witness ==
    /\ authPhase = "ready"
    /\ serverAccepted
    /\ clearedSince
    /\ authCalls = <<>>
    /\ nAuthOps = 2
    /\ ~isAuthenticated
    /\ user = Null
    /\ userCache = Null

====
